---- MODULE Spec2Model ----
(***************************************************************************)
(* State-machine model of main.py of wati-work-bot: the poll-act-recover   *)
(* loop run_wati_bot (lines 65-184) driven against a nondeterministic      *)
(* browser and inbox page, and unzip_wati_profile (lines 27-36) driven     *)
(* against a small filesystem.                                             *)
(***************************************************************************)
EXTENDS Integers, Sequences, FiniteSets, TLC

VARIABLES
    pc,           \* position of run_wati_bot (one value per awaited step)
    browsers,     \* number of live browser instances of the process
    unread,       \* conversations showing an unread badge in the live page
    adsAbsent,    \* conversations whose chat has no 'Ads (CTWA)' flow entry
    owner,        \* for each local of run_wati_bot: which session assigned it
    elem,         \* conversation of the handle unread_elements[0] (0: none)
    processed,    \* the local counter `processed`
    last,         \* the last awaited operation and how it ended
    armed,        \* what the recorded trace follows ("none": not recording)
    trace,        \* the sleeps and page operations since `armed` was set
    clean,        \* the current batch has met no failure and no page change
    clicks,       \* successful clicks on the action target in a clean batch
    notFound,     \* logged 'not found' skips in a clean batch
    batchItems,   \* unread conversations found by the scan of a clean batch
    renderEnv,    \* the RENDER environment variable
    zipFile,      \* wati_profile.zip: whether it exists, and its members
    parentDir,    \* the directory dirname(USER_DATA_DIR): name -> content
    unzipCalls,   \* number of calls of unzip_wati_profile made so far
    sess,         \* what the live browser session has done so far
    mainPc,       \* position of the module's start-up code and of main()
    done,         \* the set-up steps of main() that have completed
    server,       \* the Health Server task: "none", "starting", "listening"
    response,     \* status of the last answer to GET / (0: none yet)
    browsersPath, \* where PLAYWRIGHT_BROWSERS_PATH points after import
    userDataDir   \* where USER_DATA_DIR points after import

botVars == <<pc, browsers, unread, adsAbsent, owner, elem, processed>>
monVars == <<last, armed, trace, clean, clicks, notFound, batchItems>>
fsVars == <<renderEnv, zipFile, parentDir, unzipCalls>>
mainVars == <<mainPc, done, server, response, browsersPath, userDataDir>>
vars == <<botVars, monVars, fsVars, sess, mainVars>>

----------------------------------------------------------------------------
(* Bounds of the model *)

MaxItems == 3
MaxProcessed == 4
MaxCalls == 2

(* Program constants *)

CHECK_INTERVAL == 180
LOGIN_GRACE == 30
RESTART_BACKOFF == 10

Items == 1..MaxItems
Locals == {"page", "unread_elements", "elem", "processed"}

\* How an awaited Playwright call ends: it returns, it raises PlaywrightTimeout,
\* or it raises another playwright Error (both are subclasses of Exception).
Outcomes == {"ok", "timeout", "error"}
Failures == {"timeout", "error"}

\* query_selector_all returns the badges in document order: the first handle
\* is the badge of the first unread conversation of the list.
First(S) == CHOOSE i \in S : \A j \in S : i <= j

----------------------------------------------------------------------------
(* Control-flow targets of run_wati_bot.  Each names the statement that    *)
(* runs next after the construct it models.                                *)

\* except Exception (181-184): every exception escaping the session body.
OuterExcept_crash == "crashed"
OuterExcept_nosleep == "launch"
OuterExcept == "fatal_sleep"

\* after `await asyncio.sleep(10)` (184) the outer while True loops (68).
AfterBackoff == "launch"

\* except PlaywrightTimeout of the login wait (86-89).
LoginTimeout == "login_grace"

\* `continue` at 89: the outer loop, leaving the `async with` block.
AfterLoginGrace_recheck == "login_wait"
AfterLoginGrace_backoff == "fatal_sleep"
AfterLoginGrace_proceed == "scan_wait"
AfterLoginGrace == "launch"

\* except PlaywrightTimeout of the unread wait (97-101).
ScanTimeout == "idle_sleep_a"
\* `if not unread_elements` (104-108).
ScanEmpty == "idle_sleep_b"
\* after the sleep at 99 / the sleep at 106.
AfterIdleSleepA == "idle_reload_a"
AfterIdleSleepB_noreload == "scan_wait"
AfterIdleSleepB == "idle_reload_b"
\* `continue` at 101 / 108.
AfterIdleReload == "scan_wait"

\* except PlaywrightTimeout of the chat-area wait (146-148): `continue`.
ChatAreaTimeout_escalate == "fatal_sleep"
ChatAreaTimeout == "batch_query"
\* except Exception of the per-item handler (167-170).
ItemExcept_escalate == "fatal_sleep"
ItemExcept_retry == "open_fallback"
ItemExcept == "item_except"
\* `continue` at 170.
AfterItemExcept == "batch_query"
\* else branch at 162-163, then the sleep at 165 and the reload at 172-173.
AdsMissing_escalate == "fatal_sleep"
AdsMissing == "item_sleep"
\* `break` at 117.
BatchEmpty_rescan == "scan_wait"
BatchEmpty == "batch_done_sleep"
\* end of the loop body at 175: the batch loop repeats from its query (114).
AfterItemInboxWait_noquery == "open_eval"
AfterItemInboxWait == "batch_query"

\* The positions inside the `async with` block (70-179): a browser is live.
SessionPcs ==
    {"new_page", "goto", "login_wait", "login_grace", "scan_wait", "scan_query",
     "idle_sleep_a", "idle_reload_a", "idle_sleep_b", "idle_reload_b",
     "batch_query", "open_eval", "open_fallback", "chat_area_wait",
     "options_click", "ads_query", "ads_click", "item_sleep", "item_except",
     "item_reload", "item_inbox_wait", "batch_done_sleep", "batch_done_reload"}

\* The positions of the batch loop (113-175).
BatchPcs ==
    {"batch_query", "open_eval", "open_fallback", "chat_area_wait",
     "options_click", "ads_query", "ads_click", "item_sleep", "item_except",
     "item_reload", "item_inbox_wait"}

\* The positions of the main automation loop (92-179).
LoopPcs ==
    BatchPcs \cup {"scan_wait", "scan_query", "idle_sleep_a", "idle_reload_a",
                   "idle_sleep_b", "idle_reload_b", "batch_done_sleep",
                   "batch_done_reload"}

\* Every position of run_wati_bot, and the two ways it could stop.
AllPcs ==
    SessionPcs \cup {"not_started", "launch", "fatal_sleep", "returned", "crashed"}

\* The locals each position reads.
Reads(p) ==
    CASE p \in {"goto", "login_wait", "scan_wait", "scan_query", "idle_reload_a",
                "idle_reload_b", "batch_query", "chat_area_wait", "options_click",
                "ads_query", "item_reload", "item_inbox_wait", "batch_done_reload"}
            -> {"page"}
      [] p = "open_eval" -> {"page", "elem", "processed"}
      [] p = "open_fallback" -> {"elem"}
      [] p \in {"item_except", "batch_done_sleep"} -> {"processed"}
      [] OTHER -> {}

----------------------------------------------------------------------------
(* Recording *)

\* Leaving the `async with async_playwright()` block stops Playwright: the
\* browser is closed and every handle of the session is dead.
Stale(o) == [v \in Locals |-> IF o[v] = "cur" THEN "old" ELSE o[v]]

\* Leaving the `async with` block (70) closes the browser it launched.
ExitSession_leak(b) == b
ExitSession(b) == 0

\* 74: headless=False, whatever the environment.
LaunchHeadless(env) == "headed"

\* No browser session: nothing launched, no page, marker not seen.
SessNone ==
    [headless |-> "none", pages |-> 0, marker |-> FALSE, sinceScan |-> "none",
     fresh |-> {}, fallbacks |-> 0]

\* The session record after operation op ended with o and control is at p:
\* the launch mode (72-75), the pages opened (76), the marker seen (84-85),
\* whether a CHECK_INTERVAL sleep followed the last scan (96, 99, 106, 178),
\* the handles queried in this iteration since the last reload (114-119,
\* 158, 100, 107, 173, 179) and the fallback clicks of this attempt (137-139).
SessAfter(op, o, p) ==
    IF p \notin SessionPcs THEN SessNone
    ELSE CASE op = "launch" ->
                [SessNone EXCEPT !.headless = LaunchHeadless(renderEnv)]
           [] op = "new_page" -> [sess EXCEPT !.pages = @ + 1]
           [] op = "login_wait" /\ o = "ok" -> [sess EXCEPT !.marker = TRUE]
           [] op = "scan_wait" -> [sess EXCEPT !.sinceScan = "scanned"]
           [] op \in {"idle_sleep_a", "idle_sleep_b", "batch_done_sleep"} ->
                [sess EXCEPT !.sinceScan = "slept"]
           [] op \in {"idle_reload_a", "idle_reload_b", "item_reload",
                      "batch_done_reload"} -> [sess EXCEPT !.fresh = {}]
           [] op = "batch_query" ->
                [sess EXCEPT !.fresh = IF o = "ok" THEN {"elem"} ELSE {},
                             !.fallbacks = 0]
           [] op = "open_fallback" -> [sess EXCEPT !.fallbacks = @ + 1]
           [] op = "ads_query" /\ o = "ok" ->
                [sess EXCEPT !.fresh = @ \cup {"ads_ctwa"}]
           [] OTHER -> sess

Rec(ev) == IF armed = "none" THEN trace ELSE Append(trace, ev)

Note(op, o, ev) ==
    /\ last' = [op |-> op, out |-> o]
    /\ trace' = Rec(ev)
    /\ armed' = armed
    /\ sess' = SessAfter(op, o, pc')

Arm(op, o, why) ==
    /\ last' = [op |-> op, out |-> o]
    /\ trace' = <<>>
    /\ armed' = why
    /\ sess' = SessAfter(op, o, pc')

\* asyncio.gather (209) and asyncio.run (213): when the bot task ends, main()
\* ends and the event loop is closed, and the Health Server with it.
ServerAfter(p, srv) == IF p \in {"returned", "crashed"} THEN "stopped" ELSE srv

Dirty ==
    /\ clean' = FALSE
    /\ clicks' = 0
    /\ notFound' = 0
    /\ batchItems' = {}

KeepBatch == UNCHANGED <<clean, clicks, notFound, batchItems>>

\* An exception leaves the session body: the `async with` block is left
\* (the browser is closed) and the outer handler runs.
Escalate(op, o) ==
    /\ pc' = OuterExcept
    /\ browsers' = ExitSession(browsers)
    /\ owner' = Stale(owner)
    /\ Arm(op, o, "exception")
    /\ Dirty
    /\ server' = ServerAfter(OuterExcept, server)
    /\ UNCHANGED <<unread, adsAbsent, elem, processed, fsVars>>
    /\ UNCHANGED <<mainPc, done, response, browsersPath, userDataDir>>

\* An exception is caught by the per-item handler (167-168).
ItemFail(op, o) ==
    /\ pc' = ItemExcept
    /\ browsers' = IF ItemExcept \in SessionPcs THEN browsers
                    ELSE ExitSession(browsers)
    /\ owner' = IF ItemExcept \in SessionPcs THEN owner ELSE Stale(owner)
    /\ Note(op, o, <<op, 0>>)
    /\ Dirty
    /\ UNCHANGED <<unread, adsAbsent, elem, processed, fsVars, mainVars>>

\* A step that stays in the session at position p.
Stay(p) ==
    /\ pc' = p
    /\ browsers' = IF p \in SessionPcs THEN browsers ELSE ExitSession(browsers)
    /\ owner' = IF p \in SessionPcs THEN owner ELSE Stale(owner)

----------------------------------------------------------------------------
(* The initial state: the module is about to be imported; the bot task     *)
(* does not exist yet.                                                      *)

BotInit ==
    /\ pc = "not_started"
    /\ sess = SessNone
    /\ mainPc = "import"
    /\ done = {}
    /\ server = "none"
    /\ response = 0
    /\ browsersPath = "unset"
    /\ userDataDir = "unset"
    /\ browsers = 0
    /\ unread \in SUBSET Items
    /\ adsAbsent \in SUBSET Items
    /\ owner = [v \in Locals |-> "unset"]
    /\ elem = 0
    /\ processed = 0
    /\ last = [op |-> "start", out |-> "ok"]
    /\ armed = "none"
    /\ trace = <<>>
    /\ clean = FALSE
    /\ clicks = 0
    /\ notFound = 0
    /\ batchItems = {}

----------------------------------------------------------------------------
(* Session start: lines 68-89 *)

\* 70-75: async_playwright() and launch_persistent_context(USER_DATA_DIR).
Launch(o) ==
    /\ pc = "launch"
    /\ \/ /\ o = "ok"
          /\ pc' = "new_page"
          /\ browsers' = browsers + 1
          /\ Note("launch", o, <<"launch", 0>>)
          /\ KeepBatch
          /\ UNCHANGED <<unread, adsAbsent, owner, elem, processed, fsVars, mainVars>>
       \/ /\ o \in Failures
          /\ Escalate("launch", o)

\* 76: page = await browser_context.new_page()
NewPage(o) ==
    /\ pc = "new_page"
    /\ \/ /\ o = "ok"
          /\ pc' = "goto"
          /\ owner' = [owner EXCEPT !["page"] = "cur"]
          /\ Note("new_page", o, <<"new_page", 0>>)
          /\ KeepBatch
          /\ UNCHANGED <<browsers, unread, adsAbsent, elem, processed, fsVars, mainVars>>
       \/ /\ o \in Failures
          /\ Escalate("new_page", o)

\* 78-80: page.goto(WATI_URL, timeout=60000), then sleep(2).
Goto(o) ==
    /\ pc = "goto"
    /\ \/ /\ o = "ok"
          /\ Stay("login_wait")
          /\ Note("goto", o, <<"goto", 0>>)
          /\ KeepBatch
          /\ UNCHANGED <<unread, adsAbsent, elem, processed, fsVars, mainVars>>
       \/ /\ o \in Failures
          /\ Escalate("goto", o)

\* 83-87: wait_for_selector("text=Team Inbox", timeout=60000).
LoginWait(o) ==
    /\ pc = "login_wait"
    /\ \/ /\ o = "ok"
          /\ Stay("scan_wait")
          /\ Note("login_wait", o, <<"login_wait", 0>>)
          /\ KeepBatch
          /\ UNCHANGED <<unread, adsAbsent, elem, processed, fsVars, mainVars>>
       \/ /\ o = "timeout"
          /\ Stay(LoginTimeout)
          /\ Arm("login_wait", o, "login")
          /\ KeepBatch
          /\ UNCHANGED <<unread, adsAbsent, elem, processed, fsVars, mainVars>>
       \/ /\ o = "error"
          /\ Escalate("login_wait", o)

\* 88-89: sleep(30), then `continue` of the outer loop.
LoginGrace ==
    /\ pc = "login_grace"
    /\ Stay(AfterLoginGrace)
    /\ Note("login_grace", "ok", <<"sleep", LOGIN_GRACE>>)
    /\ KeepBatch
    /\ UNCHANGED <<unread, adsAbsent, elem, processed, fsVars, mainVars>>

\* 181-184: the handler logs and sleeps 10 seconds; the outer loop repeats.
FatalSleep ==
    /\ pc = "fatal_sleep"
    /\ Stay(AfterBackoff)
    /\ Note("fatal_sleep", "ok", <<"sleep", RESTART_BACKOFF>>)
    /\ KeepBatch
    /\ UNCHANGED <<unread, adsAbsent, elem, processed, fsVars, mainVars>>

----------------------------------------------------------------------------
(* Scanning and idling: lines 92-111 *)

\* 95-97: wait_for_selector(unread badge, timeout=10000).  It returns when a
\* badge is in the page and times out when none is.
ScanWait(o) ==
    /\ pc = "scan_wait"
    /\ \/ /\ o = "ok"
          /\ unread # {}
          /\ Stay("scan_query")
          /\ Arm("scan_wait", o, "none")
          /\ KeepBatch
          /\ UNCHANGED <<unread, adsAbsent, elem, processed, fsVars, mainVars>>
       \/ /\ o = "timeout"
          /\ unread = {}
          /\ Stay(ScanTimeout)
          /\ Arm("scan_wait", o, "empty_timeout")
          /\ KeepBatch
          /\ UNCHANGED <<unread, adsAbsent, elem, processed, fsVars, mainVars>>
       \/ /\ o = "error"
          /\ Escalate("scan_wait", o)

\* 103-111: query_selector_all; an empty list idles, otherwise processed = 0.
ScanQuery(o) ==
    /\ pc = "scan_query"
    /\ \/ /\ o = "ok"
          /\ unread = {}
          /\ Stay(ScanEmpty)
          /\ Arm("scan_query", "empty", "empty_query")
          /\ KeepBatch
          /\ UNCHANGED <<unread, adsAbsent, elem, processed, fsVars, mainVars>>
       \/ /\ o = "ok"
          /\ unread # {}
          /\ pc' = "batch_query"
          /\ processed' = 0
          /\ owner' = [owner EXCEPT !["unread_elements"] = "cur",
                                    !["processed"] = "cur"]
          /\ Note("scan_query", o, <<"scan_query", 0>>)
          /\ clean' = TRUE
          /\ clicks' = 0
          /\ notFound' = 0
          /\ batchItems' = unread
          /\ UNCHANGED <<browsers, unread, adsAbsent, elem, fsVars, mainVars>>
       \/ /\ o = "error"
          /\ Escalate("scan_query", o)

\* 98-99: the log line and sleep(CHECK_INTERVAL) of the timeout branch.
IdleSleepA ==
    /\ pc = "idle_sleep_a"
    /\ Stay(AfterIdleSleepA)
    /\ Note("idle_sleep_a", "ok", <<"sleep", CHECK_INTERVAL>>)
    /\ KeepBatch
    /\ UNCHANGED <<unread, adsAbsent, elem, processed, fsVars, mainVars>>

\* 100-101: page.reload(), then `continue`.
IdleReloadA(o) ==
    /\ pc = "idle_reload_a"
    /\ \/ /\ o = "ok"
          /\ Stay(AfterIdleReload)
          /\ Note("idle_reload_a", o, <<"reload", 0>>)
          /\ KeepBatch
          /\ UNCHANGED <<unread, adsAbsent, elem, processed, fsVars, mainVars>>
       \/ /\ o \in Failures
          /\ Escalate("idle_reload_a", o)

\* 105-106: the log line and sleep(CHECK_INTERVAL) of the empty-list branch.
IdleSleepB ==
    /\ pc = "idle_sleep_b"
    /\ Stay(AfterIdleSleepB)
    /\ Note("idle_sleep_b", "ok", <<"sleep", CHECK_INTERVAL>>)
    /\ KeepBatch
    /\ UNCHANGED <<unread, adsAbsent, elem, processed, fsVars, mainVars>>

\* 107-108: page.reload(), then `continue`.
IdleReloadB(o) ==
    /\ pc = "idle_reload_b"
    /\ \/ /\ o = "ok"
          /\ Stay(AfterIdleReload)
          /\ Note("idle_reload_b", o, <<"reload", 0>>)
          /\ KeepBatch
          /\ UNCHANGED <<unread, adsAbsent, elem, processed, fsVars, mainVars>>
       \/ /\ o \in Failures
          /\ Escalate("idle_reload_b", o)

----------------------------------------------------------------------------
(* The batch loop: lines 113-179 *)

\* 120: processed += 1.  The counter is only logged; the model stops
\* counting at MaxProcessed so that a batch that never ends stays finite.
CountUp(n) == IF n < MaxProcessed THEN n + 1 ELSE n

\* 114-121: re-query the live page; empty breaks, otherwise take the first
\* handle and count the open attempt.
BatchQuery(o) ==
    /\ pc = "batch_query"
    /\ \/ /\ o = "ok"
          /\ unread = {}
          /\ Stay(BatchEmpty)
          /\ Arm("batch_query", "empty", "batch_done")
          /\ KeepBatch
          /\ UNCHANGED <<unread, adsAbsent, elem, processed, fsVars, mainVars>>
       \/ /\ o = "ok"
          /\ unread # {}
          /\ pc' = "open_eval"
          /\ elem' = First(unread)
          /\ processed' = CountUp(processed)
          /\ owner' = [owner EXCEPT !["unread_elements"] = "cur",
                                    !["elem"] = "cur"]
          /\ Note("batch_query", o, <<"batch_query", 0>>)
          /\ KeepBatch
          /\ UNCHANGED <<browsers, unread, adsAbsent, fsVars, mainVars>>
       \/ /\ o = "error"
          /\ Escalate("batch_query", o)

\* The conversation row was clicked: the site opens the chat and clears its
\* badge (cleared), or the badge stays in the page.
RowClicked(op, cleared) ==
    /\ Stay("chat_area_wait")
    /\ unread' = IF cleared THEN unread \ {elem} ELSE unread
    /\ Note(op, "ok", <<op, 0>>)
    /\ IF cleared THEN KeepBatch ELSE Dirty
    /\ UNCHANGED <<adsAbsent, elem, processed, fsVars, mainVars>>

\* 124-136: page.evaluate clicks the ancestor row and returns true, or returns
\* false when the badge has no such ancestor, or raises.
OpenEval(o, cleared) ==
    /\ pc = "open_eval"
    /\ \/ /\ o = "ok"
          /\ RowClicked("open_eval", cleared)
       \/ /\ o = "false"
          /\ cleared
          /\ Stay("open_fallback")
          /\ Note("open_eval", o, <<"open_eval", 0>>)
          /\ KeepBatch
          /\ UNCHANGED <<unread, adsAbsent, elem, processed, fsVars, mainVars>>
       \/ /\ o = "error"
          /\ cleared
          /\ ItemFail("open_eval", o)

\* 137-142: scroll_into_view_if_needed and click(force=True) on the badge.
OpenFallback(o, cleared) ==
    /\ pc = "open_fallback"
    /\ \/ /\ o = "ok"
          /\ RowClicked("open_fallback", cleared)
       \/ /\ o \in Failures
          /\ cleared
          /\ ItemFail("open_fallback", o)

\* 144-148: wait_for_selector("div.chat-area", timeout=10000).
ChatAreaWait(o) ==
    /\ pc = "chat_area_wait"
    /\ \/ /\ o = "ok"
          /\ Stay("options_click")
          /\ Note("chat_area_wait", o, <<"chat_area_wait", 0>>)
          /\ KeepBatch
          /\ UNCHANGED <<unread, adsAbsent, elem, processed, fsVars, mainVars>>
       \/ /\ o = "timeout"
          /\ Stay(ChatAreaTimeout)
          /\ Note("chat_area_wait", o, <<"chat_area_wait", 0>>)
          /\ Dirty
          /\ UNCHANGED <<unread, adsAbsent, elem, processed, fsVars, mainVars>>
       \/ /\ o = "error"
          /\ ItemFail("chat_area_wait", o)

\* 150-155: page.click(message options, timeout=10000), then sleep(1.5).
OptionsClick(o) ==
    /\ pc = "options_click"
    /\ \/ /\ o = "ok"
          /\ Stay("ads_query")
          /\ Note("options_click", o, <<"options_click", 0>>)
          /\ KeepBatch
          /\ UNCHANGED <<unread, adsAbsent, elem, processed, fsVars, mainVars>>
       \/ /\ o \in Failures
          /\ ItemFail("options_click", o)

\* 157-163: query_selector of the flow entry; None logs "Couldn't find".
AdsQuery(o) ==
    /\ pc = "ads_query"
    /\ \/ /\ o = "ok"
          /\ elem \notin adsAbsent
          /\ Stay("ads_click")
          /\ Note("ads_query", o, <<"ads_query", 0>>)
          /\ KeepBatch
          /\ UNCHANGED <<unread, adsAbsent, elem, processed, fsVars, mainVars>>
       \/ /\ o = "ok"
          /\ elem \in adsAbsent
          /\ Stay(AdsMissing)
          /\ Note("ads_query", "absent", <<"ads_query", 0>>)
          /\ notFound' = IF clean THEN notFound + 1 ELSE 0
          /\ UNCHANGED <<clean, clicks, batchItems>>
          /\ UNCHANGED <<unread, adsAbsent, elem, processed, fsVars, mainVars>>
       \/ /\ o = "error"
          /\ ItemFail("ads_query", o)

\* 160-161: ads_ctwa.click()
AdsClick(o) ==
    /\ pc = "ads_click"
    /\ \/ /\ o = "ok"
          /\ Stay("item_sleep")
          /\ Note("ads_click", o, <<"ads_click", 0>>)
          /\ clicks' = IF clean THEN clicks + 1 ELSE 0
          /\ UNCHANGED <<clean, notFound, batchItems>>
          /\ UNCHANGED <<unread, adsAbsent, elem, processed, fsVars, mainVars>>
       \/ /\ o \in Failures
          /\ ItemFail("ads_click", o)

\* 165: sleep(2) at the end of the try body.
ItemSleep ==
    /\ pc = "item_sleep"
    /\ Stay("item_reload")
    /\ Note("item_sleep", "ok", <<"sleep", 2>>)
    /\ KeepBatch
    /\ UNCHANGED <<unread, adsAbsent, elem, processed, fsVars, mainVars>>

\* 168-170: the handler logs, sleeps 2 seconds and continues the batch loop.
ItemExceptSleep ==
    /\ pc = "item_except"
    /\ Stay(AfterItemExcept)
    /\ Note("item_except", "ok", <<"sleep", 2>>)
    /\ KeepBatch
    /\ UNCHANGED <<unread, adsAbsent, elem, processed, fsVars, mainVars>>

\* 172-173: page.reload() after the item; no handler around it.
ItemReload(o) ==
    /\ pc = "item_reload"
    /\ \/ /\ o = "ok"
          /\ Stay("item_inbox_wait")
          /\ Note("item_reload", o, <<"reload", 0>>)
          /\ KeepBatch
          /\ UNCHANGED <<unread, adsAbsent, elem, processed, fsVars, mainVars>>
       \/ /\ o \in Failures
          /\ Escalate("item_reload", o)

\* 174-175: wait_for_selector("text=Team Inbox", timeout=30000), sleep(2);
\* no handler around it either.
ItemInboxWait(o) ==
    /\ pc = "item_inbox_wait"
    /\ \/ /\ o = "ok"
          /\ Stay(AfterItemInboxWait)
          /\ Note("item_inbox_wait", o, <<"item_inbox_wait", 0>>)
          /\ KeepBatch
          /\ UNCHANGED <<unread, adsAbsent, elem, processed, fsVars, mainVars>>
       \/ /\ o \in Failures
          /\ Escalate("item_inbox_wait", o)

\* 177-178: the completion log line and sleep(CHECK_INTERVAL).
BatchDoneSleep ==
    /\ pc = "batch_done_sleep"
    /\ Stay("batch_done_reload")
    /\ Note("batch_done_sleep", "ok", <<"sleep", CHECK_INTERVAL>>)
    /\ Dirty
    /\ UNCHANGED <<unread, adsAbsent, elem, processed, fsVars, mainVars>>

\* 179: page.reload(), then the main loop repeats.
BatchDoneReload(o) ==
    /\ pc = "batch_done_reload"
    /\ \/ /\ o = "ok"
          /\ Stay("scan_wait")
          /\ Note("batch_done_reload", o, <<"reload", 0>>)
          /\ KeepBatch
          /\ UNCHANGED <<unread, adsAbsent, elem, processed, fsVars, mainVars>>
       \/ /\ o \in Failures
          /\ Escalate("batch_done_reload", o)

----------------------------------------------------------------------------
(* The inbox changes under the bot: a customer writes, or another agent    *)
(* reads a conversation.                                                   *)

EnvArrive(i) ==
    /\ i \notin unread
    /\ unread' = unread \cup {i}
    /\ Dirty
    /\ UNCHANGED <<pc, browsers, adsAbsent, owner, elem, processed,
                   last, armed, trace, fsVars, sess, mainVars>>

EnvRead(i) ==
    /\ i \in unread
    /\ unread' = unread \ {i}
    /\ Dirty
    /\ UNCHANGED <<pc, browsers, adsAbsent, owner, elem, processed,
                   last, armed, trace, fsVars, sess, mainVars>>

----------------------------------------------------------------------------
(* The filesystem: unzip_wati_profile, lines 27-36 *)

Names == {"wati_profile", "other"}
Contents == {1, 2}

\* os.path.exists
Exists(dir, name) == dir[name] # 0

\* "RENDER" in os.environ (20, 29)
OnRender(env) == env # "unset"

\* zipfile.extractall(target): every member of the archive is written under
\* the target directory, replacing what has the same name.
ExtractAll(zip, dir) == [n \in Names |-> IF zip[n] # 0 THEN zip[n] ELSE dir[n]]

\* 27-36: the directory after a call of unzip_wati_profile.
UnzipResult_overwrite(env, zip, dir) ==
    IF OnRender(env) /\ zip.present THEN ExtractAll(zip.members, dir) ELSE dir
UnzipResult(env, zip, dir) ==
    IF OnRender(env) /\ zip.present
    THEN IF ~Exists(dir, "wati_profile")
         THEN ExtractAll(zip.members, dir)
         ELSE dir
    ELSE dir

NoZip == [present |-> FALSE, members |-> [n \in Names |-> 0]]

FsFixed ==
    /\ renderEnv = "unset"
    /\ zipFile = NoZip
    /\ parentDir = [n \in Names |-> 0]
    /\ unzipCalls = 0

FsAny ==
    /\ renderEnv \in {"unset", "true", "other"}
    /\ zipFile \in {NoZip} \cup
                   [present : {TRUE}, members : [Names -> {0} \cup Contents]]
    /\ parentDir \in [Names -> {0} \cup Contents]
    /\ unzipCalls = 0

\* 202: a call of unzip_wati_profile().
Unzip ==
    /\ unzipCalls < MaxCalls
    /\ unzipCalls' = unzipCalls + 1
    /\ parentDir' = UnzipResult(renderEnv, zipFile, parentDir)
    /\ last' = [op |-> "unzip",
                out |-> IF Exists(parentDir, "wati_profile")
                        THEN "exists" ELSE "fresh"]
    /\ UNCHANGED <<renderEnv, zipFile, botVars, armed, trace, clean, clicks,
                   notFound, batchItems, sess, mainVars>>

\* The browser creates or rewrites its profile directory (72-75), or the
\* operator removes it between runs.
ProfileWritten(c) ==
    /\ parentDir' = [parentDir EXCEPT !["wati_profile"] = c]
    /\ parentDir' # parentDir
    /\ last' = [op |-> "profile_written", out |-> "ok"]
    /\ UNCHANGED <<renderEnv, zipFile, unzipCalls, botVars, armed, trace,
                   clean, clicks, notFound, batchItems, sess, mainVars>>

----------------------------------------------------------------------------
(* Start-up: the module-level code (13-23) and main() (200-209), and the   *)
(* Health Server (187-197).                                                *)

\* 13-16: PLAYWRIGHT_BROWSERS_PATH is the Render path when RENDER == "true",
\* and is removed (Playwright's local default) otherwise.
BrowsersPath(env) == IF env = "true" THEN "remote" ELSE "local"

\* 20-23: USER_DATA_DIR is the Render path when RENDER is in the environment.
UserDataDir(env) == IF OnRender(env) THEN "remote" ELSE "local"

\* main() runs its statements in order.
AfterUnzip_skip == "create_server"
AfterUnzip == "chromium"

\* The positions of the bot that block the event loop: every wait of
\* run_wati_bot is an `await` (asyncio.sleep, Playwright's async API).
BlockingPcs_sleep ==
    {"login_grace", "fatal_sleep", "idle_sleep_a", "idle_sleep_b",
     "batch_done_sleep"}
BlockingPcs == {}

\* The event loop can run the request handler: the server listens, and both
\* main() and the bot are suspended in an await.
CanServe ==
    /\ server = "listening"
    /\ mainPc \in {"sleep", "gather"}
    /\ pc \notin BlockingPcs

\* 13-23: the module-level code fixes the two paths from the environment.
ModuleInit ==
    /\ mainPc = "import"
    /\ mainPc' = "unzip"
    /\ browsersPath' = BrowsersPath(renderEnv)
    /\ userDataDir' = UserDataDir(renderEnv)
    /\ UNCHANGED <<botVars, monVars, fsVars, sess, done, server, response>>

\* 201-202: unzip_wati_profile().
MainUnzip ==
    /\ mainPc = "unzip"
    /\ mainPc' = AfterUnzip
    /\ done' = done \cup {"unzip"}
    /\ parentDir' = UnzipResult(renderEnv, zipFile, parentDir)
    /\ unzipCalls' = unzipCalls + 1
    /\ UNCHANGED <<botVars, monVars, sess, renderEnv, zipFile, server, response,
                   browsersPath, userDataDir>>

\* 203 (39-57): await ensure_chromium_installed(); the binary is there, or
\* the installer is run to its end.
MainChromium(present) ==
    /\ mainPc = "chromium"
    /\ mainPc' = "create_server"
    /\ done' = done \cup {"chromium"}
    /\ last' = [op |-> "ensure_chromium",
                out |-> IF present THEN "exists" ELSE "installed"]
    /\ UNCHANGED <<botVars, armed, trace, clean, clicks, notFound, batchItems,
                   fsVars, sess, server, response, browsersPath, userDataDir>>

\* 205-207: create_task(start_web_server()), then main sleeps 2 seconds.
MainCreateServer ==
    /\ mainPc = "create_server"
    /\ mainPc' = "sleep"
    /\ server' = "starting"
    /\ UNCHANGED <<botVars, monVars, fsVars, sess, done, response,
                   browsersPath, userDataDir>>

\* 208-209: create_task(run_wati_bot()), then main waits in gather.
MainCreateBot ==
    /\ mainPc = "sleep"
    /\ mainPc' = "gather"
    /\ pc' = "launch"
    /\ UNCHANGED <<browsers, unread, adsAbsent, owner, elem, processed, monVars,
                   fsVars, sess, done, server, response, browsersPath,
                   userDataDir>>

\* 187-197: start_web_server runs while main is suspended; after
\* site.start() the endpoint listens.
ServerStart ==
    /\ server = "starting"
    /\ mainPc \in {"sleep", "gather"}
    /\ server' = "listening"
    /\ UNCHANGED <<botVars, monVars, fsVars, sess, mainPc, done, response,
                   browsersPath, userDataDir>>

\* 188-189: handle() answers GET / with status 200.
HandleGet ==
    /\ CanServe
    /\ response' = 200
    /\ UNCHANGED <<botVars, monVars, fsVars, sess, mainPc, done, server,
                   browsersPath, userDataDir>>

----------------------------------------------------------------------------
(* Specifications *)

Init == BotInit /\ FsFixed

MainNext ==
    \/ ModuleInit
    \/ MainUnzip
    \/ \E present \in BOOLEAN : MainChromium(present)
    \/ MainCreateServer
    \/ MainCreateBot
    \/ ServerStart
    \/ HandleGet

BotNext ==
    \/ \E o \in Outcomes : Launch(o)
    \/ \E o \in Outcomes : NewPage(o)
    \/ \E o \in Outcomes : Goto(o)
    \/ \E o \in Outcomes : LoginWait(o)
    \/ LoginGrace
    \/ FatalSleep
    \/ \E o \in Outcomes : ScanWait(o)
    \/ \E o \in {"ok", "error"} : ScanQuery(o)
    \/ IdleSleepA
    \/ \E o \in Outcomes : IdleReloadA(o)
    \/ IdleSleepB
    \/ \E o \in Outcomes : IdleReloadB(o)
    \/ \E o \in {"ok", "error"} : BatchQuery(o)
    \/ \E o \in {"ok", "false", "error"}, c \in BOOLEAN : OpenEval(o, c)
    \/ \E o \in Outcomes, c \in BOOLEAN : OpenFallback(o, c)
    \/ \E o \in Outcomes : ChatAreaWait(o)
    \/ \E o \in Outcomes : OptionsClick(o)
    \/ \E o \in {"ok", "error"} : AdsQuery(o)
    \/ \E o \in Outcomes : AdsClick(o)
    \/ ItemSleep
    \/ ItemExceptSleep
    \/ \E o \in Outcomes : ItemReload(o)
    \/ \E o \in Outcomes : ItemInboxWait(o)
    \/ BatchDoneSleep
    \/ \E o \in Outcomes : BatchDoneReload(o)

Next ==
    \/ MainNext
    \/ BotNext
    \/ \E i \in Items : EnvArrive(i)
    \/ \E i \in Items : EnvRead(i)

Spec == Init /\ [][Next]_vars

\* Start-up under every environment, up to the first browser sessions.
StartInit == BotInit /\ unread = {} /\ adsAbsent = {} /\ FsAny

StartNext ==
    \/ MainNext
    \/ \E o \in Outcomes : Launch(o)
    \/ \E o \in Outcomes : NewPage(o)
    \/ FatalSleep

StartSpec == StartInit /\ [][StartNext]_vars

\* The bot with no new message arriving, scheduled fairly: the event loop
\* resumes the bot whenever the await it is suspended in ends, and every
\* await of the bot ends (a timeout or a fixed sleep bounds each).
QuietNext ==
    \/ MainNext
    \/ BotNext
    \/ \E i \in Items : EnvRead(i)

QuietSpec ==
    /\ Init
    /\ [][QuietNext]_vars
    /\ WF_vars(MainNext)
    /\ WF_vars(BotNext)

UnzipInit == BotInit /\ unread = {} /\ adsAbsent = {} /\ FsAny

UnzipNext ==
    \/ Unzip
    \/ \E c \in {0} \cup Contents : ProfileWritten(c)

UnzipSpec == UnzipInit /\ [][UnzipNext]_vars

TypeOK ==
    /\ pc \in AllPcs
    /\ browsers \in 0..2
    /\ unread \subseteq Items
    /\ adsAbsent \subseteq Items
    /\ owner \in [Locals -> {"unset", "old", "cur"}]
    /\ elem \in {0} \cup Items
    /\ processed \in 0..MaxProcessed
    /\ armed \in {"none", "empty_timeout", "empty_query", "exception", "login",
                 "batch_done"}
    /\ sess.pages \in 0..2
    /\ sess.fallbacks \in 0..2
    /\ mainPc \in {"import", "unzip", "chromium", "create_server", "sleep",
                  "gather"}
    /\ server \in {"none", "starting", "listening", "stopped"}
    /\ response \in {0, 200}
    /\ clean \in BOOLEAN
    /\ clicks \in 0..MaxProcessed
    /\ notFound \in 0..MaxProcessed
    /\ batchItems \subseteq Items
    /\ unzipCalls \in 0..MaxCalls

----------------------------------------------------------------------------
(* Properties *)

Sleep(n) == <<"sleep", n>>
Reload == <<"reload", 0>>
Count(seq, ev) == Cardinality({k \in 1..Len(seq) : seq[k] = ev})
Second(S) == First(S \ {First(S)})

IdlePcs == {"idle_sleep_a", "idle_reload_a", "idle_sleep_b", "idle_reload_b"}
ItemOps == {"open_eval", "open_fallback", "chat_area_wait", "options_click",
            "ads_query", "ads_click"}

\* A batch found with three unread items, the flow entry missing for the
\* second of them only, and so far no failure, no uncleared badge and no
\* change of the inbox by others.
C6_Scenario ==
    /\ clean
    /\ Cardinality(batchItems) = 3
    /\ adsAbsent \cap batchItems = {Second(batchItems)}

\* C1: after a scan that found nothing (the unread wait timed out, or the
\* query returned an empty list) the loop does one sleep of CHECK_INTERVAL,
\* then one reload, and nothing else, before the next scan starts; both
\* causes give the same sequence.
C1_IdleThenRescan ==
    armed \in {"empty_timeout", "empty_query"} =>
        /\ pc \in IdlePcs \cup {"scan_wait"}
        /\ browsers = 1
        /\ pc \in {"idle_sleep_a", "idle_sleep_b"} => trace = <<>>
        /\ pc \in {"idle_reload_a", "idle_reload_b"} =>
               trace = <<Sleep(CHECK_INTERVAL)>>
        /\ pc = "scan_wait" => trace = <<Sleep(CHECK_INTERVAL), Reload>>

C1_Witness ==
    /\ pc = "scan_wait"
    /\ armed = "empty_query"
    /\ trace = <<Sleep(CHECK_INTERVAL), Reload>>

\* C2: a failure while handling one unread item (chat area not rendered,
\* options click timed out, action target absent, any other exception in the
\* handler) leaves the bot in the batch loop with its browser: no restart,
\* no relaunch, no termination; the handler goes on to the next iteration.
C2_ItemFailureContinues ==
    /\ (last.op \in ItemOps /\ last.out \in {"timeout", "error", "absent"}) =>
           /\ pc \in {"item_except", "batch_query", "item_sleep"}
           /\ browsers = 1
    /\ last.op = "item_except" => (pc = "batch_query" /\ browsers = 1)

C2_Witness ==
    /\ last.op = "item_except"
    /\ pc = "batch_query"
    /\ unread # {}

\* C3: once the chat area of an item timed out, the next open attempt of the
\* batch is not on that item.
C3_NoRetrySameItem ==
    [][(/\ last.op = "chat_area_wait"
        /\ last.out = "timeout"
        /\ pc = "batch_query"
        /\ pc' = "open_eval") => elem' # elem]_vars

\* C4: a session-level failure is followed by exactly one 10-second backoff
\* and one launch, and the new session reads no local (page, handles,
\* processed) that the failed session assigned.
C4_OneRestartNothingCarried ==
    /\ pc = "fatal_sleep" => (armed = "exception" /\ trace = <<>> /\ browsers = 0)
    /\ (pc = "launch" /\ armed = "exception") =>
           (trace = <<Sleep(RESTART_BACKOFF)>> /\ browsers = 0)
    /\ (pc \in SessionPcs /\ armed = "exception") =>
           /\ Len(trace) >= 2
           /\ trace[1] = Sleep(RESTART_BACKOFF)
           /\ trace[2] = <<"launch", 0>>
           /\ Count(trace, Sleep(RESTART_BACKOFF)) = 1
           /\ Count(trace, <<"launch", 0>>) = 1
           /\ browsers = 1
    /\ \A v \in Reads(pc) : owner[v] = "cur"

C4_Witness ==
    /\ pc = "scan_wait"
    /\ armed = "exception"
    /\ owner["processed"] = "old"
    /\ owner["elem"] = "old"

\* C5 as claimed: every timed selector wait of the poll-act loop that expires
\* is recovered inside the loop, the inbox-marker wait after the per-item
\* reload included.
C5_EveryTimeoutLocal ==
    (/\ last.out = "timeout"
     /\ last.op \in {"scan_wait", "chat_area_wait", "options_click",
                     "item_inbox_wait"}) =>
        (pc \in LoopPcs /\ browsers = 1)

\* C5 as amended: an expired wait for the unread badge, for the chat area or
\* inside the per-item handler is recovered inside the loop; an expired wait
\* for the inbox marker after the per-item reload escalates to the outer
\* handler and the session is restarted.
C5_TimeoutLocalExceptInboxWait ==
    /\ (last.out = "timeout" /\ last.op \in ItemOps \cup {"scan_wait"}) =>
           (pc \in LoopPcs /\ browsers = 1)
    /\ (last.out = "timeout" /\ last.op = "item_inbox_wait") =>
           (pc = "fatal_sleep" /\ browsers = 0)

C5_Witness ==
    /\ last = [op |-> "item_inbox_wait", out |-> "timeout"]
    /\ pc = "fatal_sleep"
    /\ browsers = 0

\* C6: the scenario of three unread items with the action target missing for
\* the second one only, every badge cleared on opening and no failure: the
\* batch makes 3 open attempts, 2 clicks on the target and 1 'not found'
\* skip, ends on an empty re-query, and no restart happens.
C6_ThreeItemsOneMissing ==
    C6_Scenario =>
        /\ pc \in BatchPcs \cup {"batch_done_sleep"}
        /\ browsers = 1
        /\ processed <= 3
        /\ pc = "batch_query" =>
               /\ Cardinality(unread) = 3 - processed
               /\ clicks + notFound = processed
        /\ pc = "batch_done_sleep" =>
               (processed = 3 /\ clicks = 2 /\ notFound = 1 /\ unread = {})

C6_Witness ==
    /\ C6_Scenario
    /\ pc = "batch_done_sleep"

\* C7 as claimed: after the grace wait the marker is checked again in the
\* same browser session.
C7_RecheckSameSession ==
    last.op = "login_grace" => (pc = "login_wait" /\ browsers = 1)

\* C7 as amended: after the grace wait the session is abandoned without a
\* re-check; the loop is entered only after a new launch whose own marker
\* wait succeeded.
C7_GraceThenRelaunch ==
    /\ last.op = "login_grace" =>
           (pc = "launch" /\ browsers = 0 /\ owner["page"] # "cur")
    /\ (pc = "scan_wait" /\ armed = "login") =>
           trace = <<Sleep(LOGIN_GRACE), <<"launch", 0>>, <<"new_page", 0>>,
                     <<"goto", 0>>, <<"login_wait", 0>>>>

C7_Witness ==
    /\ pc = "scan_wait"
    /\ armed = "login"

\* C8 as claimed: the restart after a failed login check happens after the
\* fixed 10-second backoff.
C8_LoginRestartAfterBackoff ==
    (pc = "launch" /\ armed = "login") =>
        Count(trace, Sleep(RESTART_BACKOFF)) = 1

\* C8 as amended: a failed login check is followed by the 30-second grace
\* sleep and then exactly one launch, without the 10-second backoff, and the
\* bot never stops.
C8_LoginRestartAfterGrace ==
    armed = "login" =>
        /\ pc \in {"login_grace", "launch", "new_page", "goto", "login_wait",
                   "scan_wait"}
        /\ pc = "login_grace" => (trace = <<>> /\ browsers = 1)
        /\ pc = "launch" => (trace = <<Sleep(LOGIN_GRACE)>> /\ browsers = 0)
        /\ pc \in SessionPcs \ {"login_grace"} =>
               /\ trace[1] = Sleep(LOGIN_GRACE)
               /\ Count(trace, <<"launch", 0>>) = 1
               /\ Count(trace, Sleep(RESTART_BACKOFF)) = 0
               /\ browsers = 1

C8_Witness ==
    /\ pc = "launch"
    /\ armed = "login"
    /\ trace = <<Sleep(LOGIN_GRACE)>>

\* C9: run_wati_bot never returns and never stops with an unhandled
\* exception; every failure leads to a retry point: the per-item handler, the
\* next batch iteration, the idle wait, the login grace or the outer handler.
C9_NeverExits ==
    /\ pc \in AllPcs \ {"returned", "crashed"}
    /\ last.out \in Failures =>
           pc \in {"item_except", "batch_query", "idle_sleep_a", "login_grace",
                   "fatal_sleep"}

C9_Witness ==
    /\ pc = "fatal_sleep"
    /\ last = [op |-> "launch", out |-> "error"]

\* C10: a call of unzip_wati_profile made while USER_DATA_DIR exists changes
\* nothing in the filesystem.
C10_UnzipNoOpWhenExists ==
    [][(unzipCalls' # unzipCalls /\ Exists(parentDir, "wati_profile")) =>
           UNCHANGED <<parentDir, zipFile, renderEnv>>]_vars

C10_Witness ==
    /\ last = [op |-> "unzip", out |-> "exists"]
    /\ unzipCalls = 2
    /\ OnRender(renderEnv)
    /\ zipFile.present
    /\ zipFile.members["wati_profile"] \notin {0, parentDir["wati_profile"]}

C12_ServerAlwaysAnswers ==
    /\ server # "stopped"
    /\ server = "listening" => CanServe
    /\ response # 0 => (response = 200 /\ server = "listening")

C12_Witness ==
    /\ response = 200
    /\ CanServe
    /\ pc = "fatal_sleep"
    /\ last = [op |-> "item_inbox_wait", out |-> "timeout"]

\* C13: the browser is launched headless exactly when RENDER is set.
C13_HeadlessFollowsRender ==
    sess.headless # "none" =>
        ((sess.headless = "headless") <=> OnRender(renderEnv))

\* C14: every handle the batch loop acts on was queried in the same
\* iteration, after the last reload, in the current session.
C14_HandlesFresh ==
    /\ pc \in {"open_eval", "open_fallback"} =>
           ("elem" \in sess.fresh /\ owner["elem"] = "cur")
    /\ pc = "ads_click" => "ads_ctwa" \in sess.fresh
    /\ pc \in {"item_inbox_wait", "scan_wait"} => sess.fresh = {}

C14_Witness ==
    /\ pc = "ads_click"
    /\ processed = 2
    /\ sess.fresh = {"elem", "ads_ctwa"}
    /\ clean

\* C15: with no new message arriving, a batch that was entered is left
\* again (it ends, or the session restarts).
C15_BatchEnds == (pc \in BatchPcs) ~> (pc \notin BatchPcs)

\* C16: after the batch loop ended on an empty re-query the loop does one
\* sleep of CHECK_INTERVAL and one reload, then scans; and no scan of a
\* session follows the previous one without a CHECK_INTERVAL sleep between.
C16_BatchEndPacing ==
    /\ armed = "batch_done" =>
           /\ pc \in {"batch_done_sleep", "batch_done_reload", "scan_wait"}
           /\ browsers = 1
           /\ pc = "batch_done_sleep" => trace = <<>>
           /\ pc = "batch_done_reload" => trace = <<Sleep(CHECK_INTERVAL)>>
           /\ pc = "scan_wait" => trace = <<Sleep(CHECK_INTERVAL), Reload>>
    /\ pc = "scan_wait" => sess.sinceScan \in {"none", "slept"}

C16_Witness ==
    /\ pc = "scan_wait"
    /\ armed = "batch_done"
    /\ sess.sinceScan = "slept"
    /\ trace = <<Sleep(CHECK_INTERVAL), Reload>>

C18_LoopOnlyAuthenticated ==
    pc \in LoopPcs => (sess.marker /\ browsers = 1 /\ owner["page"] = "cur")

C18_Witness ==
    /\ pc = "chat_area_wait"
    /\ sess.marker
    /\ owner["processed"] = "cur"

\* C19: the profile unzip and the Chromium check are complete before the
\* server task and the bot task exist, the server task exists before the bot
\* task, and no browser is launched before that.
C19_StartupOrdered ==
    /\ server # "none" => done = {"unzip", "chromium"}
    /\ pc # "not_started" =>
           (done = {"unzip", "chromium"} /\ server # "none" /\ mainPc = "gather")
    /\ browsers > 0 => pc # "not_started"
    /\ mainPc \in {"import", "unzip"} => done = {}

C19_Witness ==
    /\ browsers = 1
    /\ server = "starting"
    /\ done = {"unzip", "chromium"}

\* C20: after import the browser-binary path and USER_DATA_DIR are both the
\* Render paths or both the local paths.
C20_PathsAgree ==
    mainPc # "import" => browsersPath = userDataDir

====
